---- MODULE Spec2Model ----
(***************************************************************************)
(* Model of app.py: the parking-lot ticket service.                        *)
(*                                                                         *)
(* The process-wide table parking_tickets is shared by the request         *)
(* handlers vehicle_entry (POST /entry) and vehicle_exit (POST /exit).     *)
(* Flask's development server (app.run) serves each request on its own     *)
(* thread, so handlers interleave between their accesses to the table.     *)
(*                                                                         *)
(* vehicle_entry accesses the table once (the store of app.py:43); its     *)
(* other steps read only its own request, a fresh uuid and the clock, so   *)
(* the handler is one action.  vehicle_exit accesses the table twice (the  *)
(* lookup of app.py:62 and the removal of app.py:84) and is cut between    *)
(* the two: other handlers run between its lookup and its removal.         *)
(*                                                                         *)
(* Time is counted in microseconds, the resolution of datetime.  Money is  *)
(* counted in cents: every amount the code produces is a multiple of 2.50, *)
(* which binary floating point represents exactly.                         *)
(*                                                                         *)
(* Optional values (None or a value) are sequences of length at most one:  *)
(* None is << >> and a present value v is << v >>.                         *)
(***************************************************************************)
EXTENDS Integers, Sequences, FiniteSets, TLC

VARIABLES
    parking_tickets,  \* app.py:8, ticket id -> [plate, parkingLot, entryTime]
    issued,           \* the ids uuid.uuid4() has produced so far
    pc,               \* per thread: "idle", or "exit_del" between lookup and removal
    ticket_id,        \* per thread: local ticket_id of vehicle_exit (Optional string)
    response_data,    \* per thread: local response_data of vehicle_exit
    resp,             \* the response a handler has just produced, with the
                      \* request it answers, until it is sent (NoResp: none)
    entered,          \* history: id -> the plate, lot and entry time of the /entry
                      \* that returned it, for the ids no /exit has returned 200 for
    consumed,         \* history: ids for which an /exit has returned 200
    count200,         \* history: how many /entry and how many /exit requests
                      \* have returned 200
    cc                \* function harness: inputs and results of calculate_charge
                      \* or of format_duration

vars == <<parking_tickets, issued, pc, ticket_id, response_data, resp,
          entered, consumed, count200, cc>>

handlerVars == <<parking_tickets, issued, pc, ticket_id, response_data, resp,
                 entered, consumed, count200>>

(***************************************************************************)
(* Bounds                                                                  *)
(***************************************************************************)
NumThreads == 2
MaxIds == 2
MaxMinutes == 16
MaxHours == 2

(***************************************************************************)
(* Units and program constants                                             *)
(***************************************************************************)
Micro == 1000000
SecondsPerMinute == 60
BucketMinutes == 15
HOURLY_RATE == 1000
Minute == SecondsPerMinute * Micro
Bucket == BucketMinutes * Minute

None == << >>
Some(v) == << v >>

\* The threads that can be inside vehicle_exit at the same time.
Threads == 1 .. NumThreads

\* The text of a uuid: the model's ids are the texts "1", "2", ...
Ids == { ToString(i) : i \in 1 .. MaxIds }

\* Values of the query parameters plate and parkingLot: absent, empty, or a text.
PlateArgs == { None, Some(""), Some("ABC123"), Some("XYZ789") }
LotArgs == { None, Some(""), Some("lotA") }
\* Values of the query parameter ticketId: absent, empty, an id the generator
\* can produce, or a text it never produces.
TicketArgs == { None, Some("") } \cup { Some(i) : i \in Ids } \cup { Some("bogus") }

\* datetime.now(): naive local wall-clock time, which elapses and which the
\* system may set forward or back, so a later call may return any instant.
\* The instants the handler specification draws from:
datetime_now == { 0, Bucket + 1 }

(***************************************************************************)
(* Library operations the handlers use                                     *)
(***************************************************************************)

\* Some operations below come with variants that carry a plausible slip
\* (uuid4_any, not_str_is_none, ...).  No specification uses them: they
\* serve to test that the properties depend on the operation.

\* uuid.uuid4(): a version-4 uuid, which the library draws so that it differs
\* from every uuid drawn before; gen is the set of ids drawn so far.
\* (uuid4_any: a generator that may repeat an id.)
uuid4_any(gen) == Ids
uuid4(gen) == Ids \ gen

\* Python truth value of an Optional string: `not s` holds for None and "".
\* (not_str_is_none: the test `s is None`.)
not_str_is_none(s) == s = None
not_str(s) == s = None \/ s = Some("")

\* `not ticket_info`: the stored records are dicts with three keys, never
\* empty, so only None is false.
not_dict(d) == d = None

\* dict.get(k): the value, or None when k is not a key.
\* (dict_get_default: a lookup with a default record.)
dict_get_default(d, k) ==
    IF k \in DOMAIN d THEN Some(d[k])
    ELSE Some([plate |-> "", parkingLot |-> "", entryTime |-> 0])
dict_get(d, k) == IF k \in DOMAIN d THEN Some(d[k]) ELSE None

\* d[k] = v
\* (dict_setitem_replace: d = {k: v}, a new table with the one item;
\*  dict_setitem_update: the value written to every item.)
dict_setitem_replace(d, k, v) == [x \in {k} |-> v]
dict_setitem_update(d, k, v) == [x \in DOMAIN d \cup {k} |-> v]
dict_setitem(d, k, v) == [x \in DOMAIN d \cup {k} |-> IF x = k THEN v ELSE d[x]]

\* del d[k]: raises KeyError when k is not a key, else removes it.
\* (dict_delitem_pop: d.pop(k, None), which never raises;
\*  dict_delitem_noop: the removal left out;
\*  dict_delitem_clear: d.clear(), every item removed.)
dict_delitem_clear(d, k) ==
    [raised |-> k \notin DOMAIN d, dict |-> << >>]
dict_delitem_pop(d, k) ==
    [raised |-> FALSE, dict |-> [x \in DOMAIN d \ {k} |-> d[x]]]
dict_delitem_noop(d, k) ==
    [raised |-> k \notin DOMAIN d, dict |-> d]
dict_delitem(d, k) ==
    [raised |-> k \notin DOMAIN d, dict |-> [x \in DOMAIN d \ {k} |-> d[x]]]

\* math.ceil(num / den) for den > 0, on exact quotients.
math_ceil(num, den) == -((-num) \div den)

\* int(num / den) for den > 0: truncation toward zero.
int_trunc(num, den) == IF num >= 0 THEN num \div den ELSE -((-num) \div den)

(***************************************************************************)
(* calculate_charge, app.py:12-21.  Returns <<charge, duration>>, the      *)
(* charge in cents and the duration in microseconds.                       *)
(*   total_minutes / 15 = duration / Bucket, and                           *)
(*   HOURLY_RATE / 4 is the price of one 15-minute increment.              *)
(* The quotients are exact here; the floats of the code agree with them    *)
(* on every duration shorter than some centuries.                          *)
(* (calculate_charge_floor_plus_one: int(x) + 1 for the ceiling;           *)
(*  calculate_charge_whole_minutes: the minutes truncated first;           *)
(*  calculate_charge_round: round(x) for the ceiling;                      *)
(*  calculate_charge_guarded: an exit before the entry counted as zero.)   *)
(***************************************************************************)
calculate_charge_floor_plus_one(et, xt) ==
    LET duration == xt - et
        increments == (duration \div Bucket) + 1
        charge == increments * (HOURLY_RATE \div 4)
    IN  << charge, duration >>
calculate_charge_whole_minutes(et, xt) ==
    LET duration == xt - et
        increments == math_ceil(int_trunc(duration, Minute), BucketMinutes)
        charge == increments * (HOURLY_RATE \div 4)
    IN  << charge, duration >>
calculate_charge_round(et, xt) ==
    LET duration == xt - et
        increments == (duration + Bucket \div 2) \div Bucket
        charge == increments * (HOURLY_RATE \div 4)
    IN  << charge, duration >>
calculate_charge_guarded(et, xt) ==
    LET duration == IF xt < et THEN 0 ELSE xt - et
        increments == math_ceil(duration, Bucket)
        charge == increments * (HOURLY_RATE \div 4)
    IN  << charge, duration >>
calculate_charge(et, xt) ==
    LET duration == xt - et
        increments == math_ceil(duration, Bucket)
        charge == increments * (HOURLY_RATE \div 4)
    IN  << charge, duration >>

(***************************************************************************)
(* format_duration, app.py:23-28.  Its argument is a timedelta, kept the   *)
(* way datetime keeps it: a whole number of seconds (days folded in) and   *)
(* 0 <= microseconds < 10^6, the value being seconds + microseconds/10^6.  *)
(* (format_duration_rounded: round(x) for int(x).)                         *)
(***************************************************************************)
\* The timedelta of a count of microseconds (exit_time - entry_time).
timedelta(us) == [seconds |-> us \div Micro, microseconds |-> us % Micro]

\* int(td.total_seconds()): the value truncated toward zero.
int_total_seconds(td) ==
    IF td.seconds < 0 /\ td.microseconds > 0 THEN td.seconds + 1 ELSE td.seconds

format_duration_rounded(duration) ==
    LET total_seconds == IF 2 * duration.microseconds >= Micro
                         THEN duration.seconds + 1 ELSE duration.seconds
        hours == total_seconds \div 3600
        minutes == (total_seconds % 3600) \div 60
        seconds == total_seconds % 60
    IN  ToString(hours) \o " hours, " \o ToString(minutes) \o " minutes, "
            \o ToString(seconds) \o " seconds"
format_duration(duration) ==
    LET total_seconds == int_total_seconds(duration)
        hours == total_seconds \div 3600
        minutes == (total_seconds % 3600) \div 60
        seconds == total_seconds % 60
    IN  ToString(hours) \o " hours, " \o ToString(minutes) \o " minutes, "
            \o ToString(seconds) \o " seconds"

\* f"${charge:.2f}" for a charge in cents (a multiple of 50 cents).
two_digits(n) == IF n < 10 THEN "0" \o ToString(n) ELSE ToString(n)
format_charge(charge) ==
    IF charge >= 0
    THEN "$" \o ToString(charge \div 100) \o "." \o two_digits(charge % 100)
    ELSE "$-" \o ToString((-charge) \div 100) \o "." \o two_digits((-charge) % 100)

(***************************************************************************)
(* Responses.  A handler that returns produces jsonify(body), status; a    *)
(* handler that raises is answered by Flask with status 500.               *)
(***************************************************************************)
\* Each response is recorded with the request it answers.
EntryRequest(a_plate, a_lot) == [route |-> "/entry", plate |-> a_plate, parkingLot |-> a_lot]
ExitRequest(a_ticket) == [route |-> "/exit", ticketId |-> a_ticket]
NoResp == [status |-> 0]
Response(body, status, request) ==
    [status |-> status, body |-> body, request |-> request]
Raised(exc, request) == [status |-> 500, raised |-> exc, request |-> request]

MissingEntryParam == [error |-> "Missing 'plate' or 'parkingLot' query parameter"]
MissingExitParam == [error |-> "Missing 'ticketId' query parameter"]
UnknownTicket == [error |-> "Invalid or expired ticket ID"]

\* The dict literal of app.py:43-47, the record stored for a ticket.
\* (ticket_record_swapped: plate and parkingLot exchanged.)
ticket_record_swapped(p, l, t) == [plate |-> l, parkingLot |-> p, entryTime |-> t]
ticket_record(p, l, t) == [plate |-> p, parkingLot |-> l, entryTime |-> t]

\* The dict literal of app.py:75-80, the body of a successful /exit.
exit_response(info, charge, duration) ==
    [licensePlate |-> info.plate,
     totalParkedTime |-> format_duration(timedelta(duration)),
     parkingLotId |-> info.parkingLot,
     charge |-> format_charge(charge)]

(***************************************************************************)
(* Initial state: app.py:8, an empty table, and no request in progress.    *)
(***************************************************************************)
NoCalc == [phase |-> "off"]

HandlerInit ==
    /\ parking_tickets = << >>
    /\ issued = {}
    /\ pc = [th \in Threads |-> "idle"]
    /\ ticket_id = [th \in Threads |-> None]
    /\ response_data = [th \in Threads |-> None]
    /\ resp = NoResp
    /\ entered = << >>
    /\ consumed = {}
    /\ count200 = [entry |-> 0, exit |-> 0]

Init == HandlerInit /\ cc = NoCalc

(***************************************************************************)
(* vehicle_entry, app.py:30-52: read the parameters and reject missing     *)
(* ones; else draw the ticket id, read the clock, store the record and     *)
(* return the id.                                                          *)
(***************************************************************************)
vehicle_entry(a_plate, a_lot) ==
    /\ resp = NoResp
    /\ IF not_str(a_plate) \/ not_str(a_lot)
       THEN /\ resp' = Response(MissingEntryParam, 400, EntryRequest(a_plate, a_lot))
            /\ UNCHANGED <<parking_tickets, issued, entered, count200>>
       ELSE \E u \in uuid4(issued), entry_time \in datetime_now :
              /\ issued' = issued \cup {u}
              /\ parking_tickets' =
                    dict_setitem(parking_tickets, u,
                                 ticket_record(a_plate[1], a_lot[1], entry_time))
              /\ entered' = [x \in DOMAIN entered \cup {u} |->
                               IF x = u
                               THEN [plate |-> a_plate[1], parkingLot |-> a_lot[1],
                                     entryTime |-> entry_time]
                               ELSE entered[x]]
              /\ resp' = Response([ticketId |-> u], 200, EntryRequest(a_plate, a_lot))
              /\ count200' = [count200 EXCEPT !.entry = @ + 1]
    /\ UNCHANGED <<pc, ticket_id, response_data, consumed, cc>>

(***************************************************************************)
(* vehicle_exit, app.py:54-87                                              *)
(***************************************************************************)
\* app.py:56-80: read the parameter, reject a missing one, look the ticket
\* up and reject an unknown one; else read the clock, compute the charge and
\* build the response.
vehicle_exit(th, a_ticket) ==
    /\ resp = NoResp
    /\ pc[th] = "idle"
    /\ IF not_str(a_ticket)
       THEN /\ resp' = Response(MissingExitParam, 400, ExitRequest(a_ticket))
            /\ UNCHANGED <<pc, ticket_id, response_data>>
       ELSE LET ticket_info == dict_get(parking_tickets, a_ticket[1])
            IN  IF not_dict(ticket_info)
                THEN /\ resp' = Response(UnknownTicket, 404, ExitRequest(a_ticket))
                     /\ UNCHANGED <<pc, ticket_id, response_data>>
                ELSE \E exit_time \in datetime_now :
                     LET res == calculate_charge(ticket_info[1].entryTime, exit_time)
                     IN  /\ ticket_id' = [ticket_id EXCEPT ![th] = a_ticket]
                         /\ response_data' = [response_data EXCEPT ![th] =
                               Some(exit_response(ticket_info[1], res[1], res[2]))]
                         /\ pc' = [pc EXCEPT ![th] = "exit_del"]
                         /\ resp' = NoResp
    /\ UNCHANGED <<parking_tickets, issued, entered, consumed, count200, cc>>

\* app.py:84-87: remove the ticket and return the response; the removal
\* raises KeyError when the id is no longer a key of the table.
exit_del(th) ==
    /\ resp = NoResp
    /\ pc[th] = "exit_del"
    /\ LET id == ticket_id[th][1]
           r == dict_delitem(parking_tickets, id)
       IN  IF r.raised
           THEN /\ resp' = Raised("KeyError", ExitRequest(ticket_id[th]))
                /\ UNCHANGED <<parking_tickets, consumed, entered, count200>>
           ELSE /\ parking_tickets' = r.dict
                /\ consumed' = consumed \cup {id}
                /\ entered' = [x \in DOMAIN entered \ {id} |-> entered[x]]
                /\ resp' = Response(response_data[th][1], 200, ExitRequest(ticket_id[th]))
                /\ count200' = [count200 EXCEPT !.exit = @ + 1]
    /\ pc' = [pc EXCEPT ![th] = "idle"]
    /\ ticket_id' = [ticket_id EXCEPT ![th] = None]
    /\ response_data' = [response_data EXCEPT ![th] = None]
    /\ UNCHANGED <<issued, cc>>

\* The response of a handler goes out to its client.  The handlers never
\* read resp: it is kept for one step so that every response is seen once,
\* next to the state it was produced in.
send_response ==
    /\ resp # NoResp
    /\ resp' = NoResp
    /\ UNCHANGED <<parking_tickets, issued, pc, ticket_id, response_data,
                   entered, consumed, count200, cc>>

Next ==
    \/ send_response
    \/ \E a_plate \in PlateArgs, a_lot \in LotArgs : vehicle_entry(a_plate, a_lot)
    \/ \E th \in Threads, a_ticket \in TicketArgs : vehicle_exit(th, a_ticket)
    \/ \E th \in Threads : exit_del(th)

Spec == Init /\ [][Next]_vars

(***************************************************************************)
(* Calculator harness: calculate_charge applied to one entry time and two  *)
(* exit times drawn from a grid of instants around the minute and bucket   *)
(* boundaries, exit times before the entry time included; data1 is the     *)
(* response_data that vehicle_exit (app.py:72-80) builds from the first    *)
(* result.                                                                 *)
(***************************************************************************)
Offsets == { 0, 1, Micro - 1, Minute - 1 }
ExitTimes == { m * Minute + o : m \in 0 .. MaxMinutes, o \in Offsets }
EntryTimes == { 0, Bucket, 2 * Bucket }

ChargeInit ==
    /\ HandlerInit
    /\ cc \in [phase : {"in"}, entryTime : EntryTimes,
               exit1 : ExitTimes, exit2 : ExitTimes]

Charge ==
    /\ cc.phase = "in"
    /\ cc' = [phase |-> "out", entryTime |-> cc.entryTime,
              exit1 |-> cc.exit1, exit2 |-> cc.exit2,
              res1 |-> calculate_charge(cc.entryTime, cc.exit1),
              res2 |-> calculate_charge(cc.entryTime, cc.exit2),
              data1 |-> LET res == calculate_charge(cc.entryTime, cc.exit1)
                        IN  exit_response(
                                ticket_record("ABC123", "lotA", cc.entryTime),
                                res[1], res[2])]
    /\ UNCHANGED handlerVars

ChargeNext == Charge

ChargeSpec == ChargeInit /\ [][ChargeNext]_vars

(***************************************************************************)
(* Formatter harness: format_duration applied to one timedelta drawn from  *)
(* a grid around the minute and hour boundaries, with and without a        *)
(* sub-second part, negative durations (hour -1) included.                 *)
(***************************************************************************)
Marks == { 0, 1, 59 }
SubSeconds == { 0, 1, Micro - 1 }
Durations ==
    { [seconds |-> h * 3600 + m * 60 + s, microseconds |-> u] :
        h \in -1 .. MaxHours, m \in Marks, s \in Marks, u \in SubSeconds }

FormatInit ==
    /\ HandlerInit
    /\ cc \in [phase : {"fin"}, duration : Durations]

Format ==
    /\ cc.phase = "fin"
    /\ cc' = [phase |-> "fout", duration |-> cc.duration,
              text |-> format_duration(cc.duration)]
    /\ UNCHANGED handlerVars

FormatNext == Format

FormatSpec == FormatInit /\ [][FormatNext]_vars

(***************************************************************************)
(* Properties of the handlers (specification Spec)                         *)
(*                                                                         *)
(* A step that sets resp is the step in which a handler answers its        *)
(* request, resp.request.  An /exit is answered either by its first step   *)
(* (a rejection: no thread moves) or by exit_del (its thread goes back to  *)
(* "idle"); in between, its thread is at "exit_del".                       *)
(***************************************************************************)

\* The ids some /entry has returned with status 200.
Returned == DOMAIN entered \cup consumed

\* The parameter a carries a text (it is neither absent nor empty).
Present(a) == a # None /\ a # Some("")

Answers(route) == resp'.status # 0 /\ resp'.request.route = route
ExitRejected == Answers("/exit") /\ pc' = pc
ExitFound(th) == pc[th] = "idle" /\ pc'[th] = "exit_del"
ExitReturns(th) == pc[th] = "exit_del" /\ pc'[th] = "idle"

\* C1: one-time consumption.  Once an /exit for ticket id t has returned 200,
\* every /exit for t that starts afterwards does not find the ticket and
\* returns 404 with the error "Invalid or expired ticket ID"; a consumed id
\* is never in the table again.
C1_OneTimeConsumption ==
    [][ /\ \A th \in Threads :
             ExitFound(th) => ticket_id'[th][1] \notin consumed
        /\ (/\ ExitRejected
            /\ Present(resp'.request.ticketId)
            /\ resp'.request.ticketId[1] \in consumed)
              => /\ resp'.status = 404
                 /\ resp'.body = [error |-> "Invalid or expired ticket ID"]
                 /\ consumed' = consumed
        /\ \A id \in consumed' : id \notin DOMAIN parking_tickets'
      ]_vars

\* C1 witness: an /exit for an id consumed earlier has been answered 404.
C1_Witness ==
    /\ resp.status = 404
    /\ resp.request.ticketId[1] \in consumed

\* C2: of the /exit handlers that interleave on one live ticket id, at most
\* one returns 200: an /exit returns 200 for an id only if no /exit has
\* returned 200 for that id before.
C2_AtMostOneExitSucceeds ==
    [][ \A th \in Threads :
           (ExitReturns(th) /\ resp'.status = 200)
              => ticket_id[th][1] \notin consumed
      ]_vars

\* C2 witness: two handlers looked the same live id up; one has returned 200
\* and the other has reached its removal and has not returned 200.
C2_Witness ==
    /\ resp.status = 500
    /\ resp.request.route = "/exit"
    /\ resp.request.ticketId[1] \in consumed

\* C3: every request completes with status 200, 400 or 404; no handler ends
\* by raising.
C3_NoUnhandledException ==
    resp.status \in {0, 200, 400, 404}

\* C4: ticket ids are unique.  An /entry that returns 200 returns an id that
\* no earlier /entry has returned, and stores its record under an id that
\* was not in the table.
C4_UniqueTicketIds ==
    [][ (Answers("/entry") /\ resp'.status = 200)
           => /\ resp'.body.ticketId \notin Returned
              /\ resp'.body.ticketId \notin DOMAIN parking_tickets
              /\ resp'.body.ticketId \in DOMAIN parking_tickets'
              /\ \A id \in DOMAIN parking_tickets :
                    /\ id \in DOMAIN parking_tickets'
                    /\ parking_tickets'[id] = parking_tickets[id]
      ]_vars

\* C4 witness: an /entry has returned 200 with a second id while the ticket
\* of the first is still open.
C4_Witness ==
    /\ resp.status = 200
    /\ resp.request.route = "/entry"
    /\ Cardinality(DOMAIN parking_tickets) >= 2
    /\ resp.body.ticketId \in DOMAIN parking_tickets

\* C5: entry/exit round trip.  For a ticket id t that an /entry has returned
\* with plate p and lot l and that no /exit has consumed yet, an /exit for t
\* is not rejected, and the first /exit for t to finish returns 200 with
\* licensePlate = p and parkingLotId = l and leaves t out of the table.
C5_RoundTrip ==
    [][ /\ (ExitRejected /\ Present(resp'.request.ticketId))
              => resp'.request.ticketId[1] \notin DOMAIN entered
        /\ \A th \in Threads :
             (ExitReturns(th) /\ ticket_id[th][1] \in DOMAIN entered)
                => /\ resp'.status = 200
                   /\ resp'.request = [route |-> "/exit", ticketId |-> ticket_id[th]]
                   /\ resp'.body.licensePlate = entered[ticket_id[th][1]].plate
                   /\ resp'.body.parkingLotId = entered[ticket_id[th][1]].parkingLot
                   /\ ticket_id[th][1] \notin DOMAIN parking_tickets'
      ]_vars

\* C5 witness: an /exit has returned 200 for a ticket while a ticket with
\* another plate is still open.
C5_Witness ==
    /\ resp.status = 200
    /\ resp.request.route = "/exit"
    /\ \E id \in DOMAIN parking_tickets :
          parking_tickets[id].plate # resp.body.licensePlate

\* C6: an /exit with a ticket id that no /entry has issued does not find a
\* ticket: it returns 404 with the error "Invalid or expired ticket ID" and
\* leaves the table as it was.
C6_UnknownTicketNotFound ==
    [][ /\ \A th \in Threads :
             ExitFound(th) => ticket_id'[th][1] \in Returned
        /\ (/\ Answers("/exit")
            /\ Present(resp'.request.ticketId)
            /\ resp'.request.ticketId[1] \notin Returned)
              => /\ resp'.status = 404
                 /\ resp'.body = [error |-> "Invalid or expired ticket ID"]
                 /\ parking_tickets' = parking_tickets
      ]_vars

\* C6 witness: an /exit for an id never issued has been answered 404 while
\* the table holds a ticket.
C6_Witness ==
    /\ resp.status = 404
    /\ resp.request.ticketId[1] \notin issued
    /\ parking_tickets # << >>

\* C7: an /entry whose plate or parkingLot is absent or empty returns 400
\* with the error "Missing 'plate' or 'parkingLot' query parameter" and
\* creates no ticket; an /exit without ticketId is answered at once, with
\* 400, and removes no ticket.  The table is unchanged in both cases.
C7_MissingParameters ==
    [][ /\ (/\ Answers("/entry")
            /\ (\/ resp'.request.plate \in {None, Some("")}
                \/ resp'.request.parkingLot \in {None, Some("")}))
              => /\ resp'.status = 400
                 /\ resp'.body =
                      [error |-> "Missing 'plate' or 'parkingLot' query parameter"]
                 /\ parking_tickets' = parking_tickets
                 /\ issued' = issued
        /\ (Answers("/exit") /\ resp'.request.ticketId = None)
              => /\ resp'.status = 400
                 /\ parking_tickets' = parking_tickets
                 /\ pc' = pc
        /\ \A th \in Threads : ExitFound(th) => ticket_id'[th] # None
      ]_vars

\* C7 witness: an /entry with a plate and an empty parkingLot has been
\* answered 400 while the table holds a ticket.
C7_Witness ==
    /\ resp.status = 400
    /\ resp.request.route = "/entry"
    /\ resp.request.plate = Some("ABC123")
    /\ resp.request.parkingLot = Some("")
    /\ parking_tickets # << >>

\* C12: a consume running concurrently with an unrelated create leaves the
\* table sound.  Whatever the handlers in progress, an /entry that returns
\* 200 with id a adds the record of a and changes nothing else, the table
\* and the locals of the /exit handlers in progress included; an /exit that
\* returns 200 for id b removes the record of b and changes nothing else;
\* the lookup of an /exit changes nothing.  So after an /entry creating a
\* and an /exit consuming another live id b, in any interleaving, the table
\* is the table before plus the record of a minus the record of b.
C12_ConcurrentFrame ==
    [][ /\ (Answers("/entry") /\ resp'.status = 200)
              => LET a == resp'.body.ticketId
                 IN  /\ a \notin DOMAIN parking_tickets
                     /\ DOMAIN parking_tickets' = DOMAIN parking_tickets \cup {a}
                     /\ parking_tickets'[a].plate = resp'.request.plate[1]
                     /\ parking_tickets'[a].parkingLot = resp'.request.parkingLot[1]
                     /\ \A x \in DOMAIN parking_tickets :
                           parking_tickets'[x] = parking_tickets[x]
                     /\ UNCHANGED <<pc, ticket_id, response_data>>
        /\ \A th \in Threads :
             (ExitReturns(th) /\ resp'.status = 200)
                => LET b == ticket_id[th][1]
                   IN  /\ b \in DOMAIN parking_tickets
                       /\ DOMAIN parking_tickets' = DOMAIN parking_tickets \ {b}
                       /\ \A x \in DOMAIN parking_tickets' :
                             parking_tickets'[x] = parking_tickets[x]
        /\ \A th \in Threads :
             ExitFound(th) => parking_tickets' = parking_tickets
      ]_vars

\* C12 witness: an /entry has returned 200 with id a while an /exit that has
\* found another live id b is before its removal; both a and b are in the
\* table.
C12_Witness ==
    /\ resp.status = 200
    /\ resp.request.route = "/entry"
    /\ resp.body.ticketId \in DOMAIN parking_tickets
    /\ \E th \in Threads :
          /\ pc[th] = "exit_del"
          /\ ticket_id[th][1] # resp.body.ticketId
          /\ ticket_id[th][1] \in DOMAIN parking_tickets

\* C13: tickets are immutable once created.  After every step, each ticket
\* in the table carries exactly the plate, parkingLot and entryTime that the
\* /entry that created it stored, and the step has not changed the record of
\* a ticket that was in the table before it.
C13_TicketsImmutable ==
    [][ \A id \in DOMAIN parking_tickets' :
           /\ id \in DOMAIN entered'
           /\ parking_tickets'[id].plate = entered'[id].plate
           /\ parking_tickets'[id].parkingLot = entered'[id].parkingLot
           /\ parking_tickets'[id].entryTime = entered'[id].entryTime
           /\ DOMAIN parking_tickets'[id] = {"plate", "parkingLot", "entryTime"}
           /\ id \in DOMAIN parking_tickets
                 => parking_tickets'[id] = parking_tickets[id]
      ]_vars

\* C13 witness: an /entry has returned 200 while the table holds an older
\* ticket with another plate and another entry time, still as it was stored.
C13_Witness ==
    /\ resp.status = 200
    /\ resp.request.route = "/entry"
    /\ \E id \in DOMAIN parking_tickets :
          /\ id # resp.body.ticketId
          /\ parking_tickets[id].plate # resp.request.plate[1]
          /\ parking_tickets[id].entryTime
                # parking_tickets[resp.body.ticketId].entryTime
          /\ parking_tickets[id] = entered[id]

\* C14: a ticket leaves the table only by consumption.  A step that takes an
\* id out of the table is the return, with status 200, of an /exit for that
\* same id; an /entry, an /exit answered 400 or 404 and an /exit for another
\* id remove nothing else, so a ticket that is never exited stays.
C14_LeavesOnlyByConsumption ==
    [][ /\ \A id \in DOMAIN parking_tickets :
             id \notin DOMAIN parking_tickets'
                => /\ resp'.status = 200
                   /\ resp'.request = [route |-> "/exit", ticketId |-> Some(id)]
                   /\ \E th \in Threads :
                         ExitReturns(th) /\ ticket_id[th] = Some(id)
        /\ Answers("/entry")
              => DOMAIN parking_tickets \subseteq DOMAIN parking_tickets'
        /\ (Answers("/exit") /\ resp'.status # 200)
              => DOMAIN parking_tickets' = DOMAIN parking_tickets
      ]_vars

\* C14 witness: an /exit has returned 200 for one id and that id has left
\* the table, while another id, which a second /exit has looked up and not
\* yet removed, is still in the table.
C14_Witness ==
    /\ resp.status = 200
    /\ resp.request.route = "/exit"
    /\ resp.request.ticketId[1] \notin DOMAIN parking_tickets
    /\ \E th \in Threads :
          /\ pc[th] = "exit_del"
          /\ ticket_id[th] # resp.request.ticketId
          /\ ticket_id[th][1] \in DOMAIN parking_tickets

\* C16: table size accounting.  In every state with no request in progress
\* the number of tickets in the table is the number of /entry requests that
\* have returned 200 minus the number of /exit requests that have returned
\* 200, and the table holds the tickets issued and not yet exited, and
\* nothing else.
C16_TableSizeAccounting ==
    (\A th \in Threads : pc[th] = "idle") =>
        /\ Cardinality(DOMAIN parking_tickets) = count200.entry - count200.exit
        /\ DOMAIN parking_tickets = Returned \ consumed
        /\ Cardinality(Returned) = count200.entry
        /\ Cardinality(consumed) = count200.exit

\* C16 witness: with no request in progress, two /entry and one /exit have
\* returned 200 and the table holds one ticket.
C16_Witness ==
    /\ \A th \in Threads : pc[th] = "idle"
    /\ resp = NoResp
    /\ count200 = [entry |-> 2, exit |-> 1]
    /\ Cardinality(DOMAIN parking_tickets) = 1

(***************************************************************************)
(* Properties of calculate_charge (specification ChargeSpec)               *)
(***************************************************************************)

\* Microseconds of parking that one cent pays for: 15 minutes cost 250 cents.
MicrosPerCent == 900000000 \div 250

\* C8: for every interval with exitTime >= entryTime the amount is
\* ceil(duration_in_minutes / 15) * 2.50, that is 250 cents times the one
\* integer n with (n - 1) * 15 min < duration <= n * 15 min.  16 minutes
\* cost 5.00, exactly 15 minutes cost 2.50, 0 minutes cost 0.00.
C8_ChargeFormula ==
    cc.phase = "out" =>
        LET d == cc.exit1 - cc.entryTime
            amount == cc.res1[1]
        IN  /\ cc.res1[2] = d
            /\ d >= 0 =>
                 \E n \in 0 .. (MaxMinutes \div 15 + 1) :
                    /\ (n - 1) * 900000000 < d
                    /\ d <= n * 900000000
                    /\ amount = n * 250
            /\ d = 960000000 => amount = 500
            /\ d = 900000000 => amount = 250
            /\ d = 0 => amount = 0

\* C8 witness: a 16-minute stay has been charged.
C8_Witness ==
    /\ cc.phase = "out"
    /\ cc.exit1 - cc.entryTime = 960000000
    /\ cc.res1[1] = 500

\* C9: every strictly positive duration, however short, is charged at least
\* one bucket (250 cents); a duration of exactly zero is charged nothing.
C9_MinimumOneBucket ==
    cc.phase = "out" =>
        LET d == cc.exit1 - cc.entryTime
            amount == cc.res1[1]
        IN  /\ d > 0 => amount >= 250
            /\ d = 0 => amount = 0

\* C9 witness: a stay of one microsecond has been charged one bucket.
C9_Witness ==
    /\ cc.phase = "out"
    /\ cc.exit1 - cc.entryTime = 1
    /\ cc.res1[1] = 250

\* C10: for a fixed entry time the amount is monotonic in the exit time, and
\* it never rounds a partial bucket down: amount >= duration / 15 min * 2.50.
C10_Monotonic ==
    cc.phase = "out" =>
        /\ cc.exit1 <= cc.exit2 => cc.res1[1] <= cc.res2[1]
        /\ cc.res1[1] * MicrosPerCent >= cc.exit1 - cc.entryTime
        /\ cc.res2[1] * MicrosPerCent >= cc.exit2 - cc.entryTime

\* C10 witness: two exit times in different buckets, each inside a bucket,
\* have been charged different amounts.
C10_Witness ==
    /\ cc.phase = "out"
    /\ cc.exit1 < cc.exit2
    /\ cc.res1[1] < cc.res2[1]
    /\ cc.res1[1] * MicrosPerCent > cc.exit1 - cc.entryTime
    /\ cc.res2[1] * MicrosPerCent > cc.exit2 - cc.entryTime

\* C15: calculate_charge does not guard an exit time before the entry time.
\* It returns the negative duration and the amount ceil(minutes / 15) * 2.50
\* of that duration, which is at most 0: 0.00 for less than 15 minutes
\* backwards, -2.50 for 15 minutes up to under 30 minutes backwards, -5.00
\* for 30 minutes backwards; the response data of /exit carries that amount.
C15_NegativeDuration ==
    (cc.phase = "out" /\ cc.exit1 < cc.entryTime) =>
        LET d == cc.exit1 - cc.entryTime
            amount == cc.res1[1]
        IN  /\ cc.res1[2] = d
            /\ \E n \in -2 .. 0 :
                  /\ n * 900000000 < d + 900000000
                  /\ d <= n * 900000000
                  /\ amount = n * 250
            /\ amount <= 0
            /\ (-900000000 < d) => (amount = 0 /\ cc.data1.charge = "$0.00")
            /\ (-1800000000 < d /\ d <= -900000000)
                  => (amount = -250 /\ cc.data1.charge = "$-2.50")
            /\ d = -1800000000
                  => (amount = -500 /\ cc.data1.charge = "$-5.00")

\* C15 witness: an exit one microsecond more than 15 minutes before the
\* entry has been charged -2.50, and the response data shows "$-2.50".
C15_Witness ==
    /\ cc.phase = "out"
    /\ cc.exit1 - cc.entryTime = -900000001
    /\ cc.res1 = << -250, -900000001 >>
    /\ cc.data1.charge = "$-2.50"
    /\ cc.data1.totalParkedTime = "-1 hours, 45 minutes, 0 seconds"

(***************************************************************************)
(* Properties of format_duration (specification FormatSpec)                *)
(***************************************************************************)

\* C11: format_duration renders the total seconds of the duration, the
\* sub-second part truncated, as "H hours, M minutes, S seconds": for every
\* non-negative duration H * 3600 + M * 60 + S is the truncated total seconds
\* with 0 <= M < 60 and 0 <= S < 60; 3661 seconds render as
\* "1 hours, 1 minutes, 1 seconds".
C11_FormatDuration ==
    cc.phase = "fout" =>
        LET d == cc.duration
        IN  /\ d.seconds >= 0 =>
                 \E H \in 0 .. MaxHours, M \in 0 .. 59, S \in 0 .. 59 :
                    /\ cc.text = ToString(H) \o " hours, " \o ToString(M)
                                    \o " minutes, " \o ToString(S) \o " seconds"
                    /\ H * 3600 + M * 60 + S = d.seconds
            /\ d.seconds = 3661 => cc.text = "1 hours, 1 minutes, 1 seconds"

\* C11 witness: 3661 seconds and 999999 microseconds have been rendered as
\* "1 hours, 1 minutes, 1 seconds".
C11_Witness ==
    /\ cc.phase = "fout"
    /\ cc.duration = [seconds |-> 3661, microseconds |-> Micro - 1]
    /\ cc.text = "1 hours, 1 minutes, 1 seconds"

====
